---------------------------- MODULE Spec2Model ----------------------------
(***************************************************************************)
(* Model of backend/mock_moisture_simulator.py: the DeviceStore (device    *)
(* map, bounded reading histories, store lock), the tick sweep, the        *)
(* simulation loop with start()/stop(), and the WebSocket observers with   *)
(* their catch-up snapshot and the tick broadcast.                         *)
(*                                                                         *)
(* Scheduling.  The program runs on one asyncio event loop: a task runs    *)
(* until it suspends at an await that cannot complete at once.  Such       *)
(* awaits are ws.accept(), ws.send_json(), ws.receive_text(), ws.close(),  *)
(* asyncio.sleep() and "await self._task".  Acquiring asyncio.Lock does    *)
(* not suspend when the lock is free, and no `async with self._lock` block *)
(* contains an await, so each action below runs from one suspension point  *)
(* to the next.  The lock is kept as a variable: every critical section is *)
(* guarded by it being free.                                               *)
(*                                                                         *)
(* Numbers.  Percentages (moisture, battery, thresholds) are integers in   *)
(* thousandths of a percent; rates are thousandths of a percent per        *)
(* second.  round(x, 2) rounds to a multiple of 10 of these units.         *)
(* A WebSocket is an ordered stream: sends on one socket complete in the   *)
(* order they were started; a send fails iff the connection is dead.       *)
(* Device name, plant_type, location, created_at and the reading's         *)
(* temperature_c take no part in any control decision and are left out.    *)
(***************************************************************************)
EXTENDS Integers, Sequences, FiniteSets, TLC

\* ------------------------------------------------------------------ bounds
MaxDevices == 2      \* devices ever created (fresh uuid4 identifiers 1..MaxDevices)
MaxClock == 2        \* tick sweeps ever executed (the clock value is the sweep count)
NumWs == 2           \* WebSocket connections
MaxStarts == 2       \* loop tasks ever created by start()
MaxOps == 3          \* store API calls ever executed

\* ------------------------------------------------------- program constants
TICK_SECONDS == 3600 \* env TICK_SECONDS (seconds per tick)
MAX_HISTORY == 2     \* env MAX_HISTORY (deque maxlen)

OK == "ok"
FAULT == "fault"
OFFLINE == "offline"
DeviceStatus == {OK, FAULT, OFFLINE}

DevIds == 1..MaxDevices
WsIds == 1..NumWs
Gens == 1..MaxStarts

\* A percentage in model units (thousandths of a percent).
Pct(p) == p * 1000

Max2(a, b) == IF a >= b THEN a ELSE b
Min2(a, b) == IF a <= b THEN a ELSE b

\* _clamp(x, lo, hi) = max(lo, min(hi, x))
ClampNoLower(x, lo, hi) == Min2(hi, x)
Clamp(x, lo, hi) == Max2(lo, Min2(hi, x))

\* round(x, 2) for x >= 0: nearest multiple of 10 units, ties to the even one.
Round2(x) ==
    LET q == x \div 10
        r == x % 10
    IN  IF r < 5 THEN q * 10
        ELSE IF r > 5 THEN (q + 1) * 10
        ELSE IF q % 2 = 0 THEN q * 10 ELSE (q + 1) * 10

\* DeviceConfig values a caller may pass (all within the Field(ge, le) ranges).
CfgDefault ==
    [min_threshold |-> Pct(25), max_threshold |-> Pct(60),
     evaporation_rate |-> 2, irrigation_rate |-> 5, leak_rate |-> 0,
     auto_mode |-> FALSE, temp_amp_c |-> 4, battery_drain_per_hour |-> 2000]
CfgAuto ==
    [min_threshold |-> Pct(50), max_threshold |-> Pct(60),
     evaporation_rate |-> 2, irrigation_rate |-> 1, leak_rate |-> 1,
     auto_mode |-> TRUE, temp_amp_c |-> 0, battery_drain_per_hour |-> 10000]
Configs == {CfgDefault, CfgAuto}

\* DeviceCreate payloads (initial_moisture and battery within Field(ge=0, le=100)).
Payloads ==
    {[initial_moisture |-> 58123, battery |-> 1234, config |-> CfgAuto],
     [initial_moisture |-> Pct(100), battery |-> Pct(100), config |-> CfgDefault]}
InitialMoistures == {p.initial_moisture : p \in Payloads}

\* random.choice([-1,1]) and random.uniform(0,4) of the fault perturbation.
NoiseSigns == {-1, 1}
NoiseMags == {Pct(4)}
\* sin(phase - pi/2) of _daily_temp at the captured `now`.
SinValues == {0, 1}

VARIABLES
    keys,        \* the keys of self._devices in dict (insertion) order
    devices,     \* self._devices: id -> [device, history]
    nextId,      \* number of identifiers handed out by uuid4
    clock,       \* wall clock (datetime.now), in ticks
    lock,        \* self._lock: "free" or the name of the holder
    resp,        \* what the last store operation returned to its caller
    ops,         \* number of store API calls executed so far
    held,        \* the Device object the last store operation returned to its caller
    ws_clients,  \* self._ws_clients
    stopEvent,   \* self._stop
    taskRef,     \* self._task: 0 for None, else the loop task's number
    loops,       \* the loop tasks: number -> local state of _loop/_tick_all/_broadcast
    stopPc,      \* the caller of stop(): "idle", "waiting", "returned"
    stopAwait,   \* the task the stop() caller awaits
    wsPc,        \* readings_ws handler of each connection
    alive,       \* whether the peer's connection is still up
    chan,        \* per socket: the sends in flight, in start order
    inbox        \* per socket: the messages the observer has received

storeVars == <<keys, devices, nextId, clock, lock, resp, ops, held>>
hubVars == <<ws_clients, wsPc, alive, chan, inbox>>
clockVars == <<stopEvent, taskRef, loops, stopPc, stopAwait>>
vars == <<keys, devices, nextId, clock, lock, resp, ops, held, ws_clients, stopEvent,
          taskRef, loops, stopPc, stopAwait, wsPc, alive, chan, inbox>>

\* ------------------------------------------------------------ DeviceStore
NoReading == [timestamp |-> -1]

\* deque(maxlen=MAX_HISTORY).append(r): a full deque drops its oldest (left) item.
DequeAppendEvictNewest(h, r) ==
    IF Len(h) >= MAX_HISTORY THEN Append(SubSeq(h, 1, Len(h) - 1), r) ELSE Append(h, r)
DequeAppend(h, r) ==
    IF Len(h) >= MAX_HISTORY THEN Append(Tail(h), r) ELSE Append(h, r)

\* The Reading built by _append_reading_unlocked for device d at time now.
MakeReading(d, now) ==
    [timestamp |-> now, device_id |-> d.id, moisture |-> Round2(d.moisture),
     battery |-> Round2(d.battery), watering |-> d.watering, status |-> d.status]

\* _append_reading_unlocked on one store entry.
AppendReadingUnlocked(s, now) ==
    [s EXCEPT !.history = DequeAppend(s.history, MakeReading(s.device, now))]

\* The entry create() stores for the payload, seed reading included.
NewEntryNoSeed(id, payload, now) ==
    [device |-> [id |-> id, status |-> OK, battery |-> payload.battery,
                 watering |-> FALSE, moisture |-> payload.initial_moisture,
                 config |-> payload.config, updated_at |-> now],
     history |-> <<>>]
NewEntry(id, payload, now) ==
    LET device == [id |-> id, status |-> OK, battery |-> payload.battery,
                   watering |-> FALSE, moisture |-> payload.initial_moisture,
                   config |-> payload.config, updated_at |-> now]
    IN  AppendReadingUnlocked([device |-> device, history |-> <<>>], now)

\* s.history[-1] of current(): KeyError for an unknown id, IndexError for an
\* empty history.
CurrentResult(id) ==
    IF id \notin DOMAIN devices THEN [err |-> "KeyError", reading |-> NoReading]
    ELSE IF devices[id].history = <<>>
         THEN [err |-> "IndexError", reading |-> NoReading]
         ELSE [err |-> "none",
               reading |-> devices[id].history[Len(devices[id].history)]]

\* s.device of get(): KeyError for an unknown id.
GetIn(devs, id) ==
    IF id \notin DOMAIN devs THEN [err |-> "KeyError"]
    ELSE [err |-> "none", device |-> devs[id].device]
GetResult(id) == GetIn(devices, id)

\* list(s.history)[-limit:] of history(), for limit >= 1.
HistoryResult(id, limit) ==
    IF id \notin DOMAIN devices THEN [err |-> "KeyError", readings |-> <<>>]
    ELSE LET h == devices[id].history
             n == Len(h)
         IN  [err |-> "none",
              readings |-> SubSeq(h, Max2(1, n - limit + 1), n)]

\* [s.device for s in self._devices.values()] of list().
ListResult == [i \in 1..Len(keys) |-> devices[keys[i]].device]

Response(op, id, err, reading) ==
    [op |-> op, id |-> id, err |-> err, reading |-> reading, arg |-> "none",
     readings |-> <<>>]

\* The Device a store operation returns is the stored object itself
\* (`return s.device`, `return device`, `return d`): the caller holds a reference
\* to the object `ref` and saw the field values `seen` when the call returned.
NoDevice == [ref |-> 0]
Returned(id, devs) == [ref |-> id, seen |-> devs[id].device]
\* What the caller reads through the reference now, while the object is stored.
HeldValue == devices[held.ref].device

LockFree == lock = "free"

\* `async with self._lock:` releases the lock when the block is left, by return
\* or by an exception.
LockKeptOnRaise(err) == IF err = "none" THEN "free" ELSE "caller"
LockOnExit(err) == "free"

\* One more API call within the budget.
ApiCall ==
    /\ ops < MaxOps
    /\ ops' = ops + 1

\* set_status: `status not in (OK, FAULT, OFFLINE)` raises ValueError.
StatusAnyValid(status) == TRUE
StatusValid(status) == status \in DeviceStatus

\* set_watering: an OFFLINE device raises RuntimeError.
WateringAlwaysAllowed(d) == TRUE
WateringAllowed(d) == d.status # OFFLINE

\* self._devices.pop(device_id)
DeleteKeepsEntry(devs, id) == devs
DeleteEntry(devs, id) == [k \in DOMAIN devs \ {id} |-> devs[k]]

OnOff(on) == IF on THEN "on" ELSE "off"

Create(payload) ==
    /\ LockFree
    /\ ApiCall
    /\ nextId < MaxDevices
    /\ LET id == nextId + 1 IN
        /\ nextId' = id
        /\ keys' = Append(keys, id)
        /\ devices' = (id :> NewEntry(id, payload, clock)) @@ devices
        /\ resp' = Response("create", id, "none", NoReading)
        /\ held' = Returned(id, devices')
    /\ lock' = LockOnExit(resp'.err)
    /\ UNCHANGED clock
    /\ UNCHANGED hubVars
    /\ UNCHANGED clockVars

Get(id) ==
    /\ LockFree
    /\ ApiCall
    /\ resp' = Response("get", id, GetResult(id).err, NoReading)
    /\ held' = IF id \in DOMAIN devices THEN Returned(id, devices) ELSE held
    /\ lock' = LockOnExit(resp'.err)
    /\ UNCHANGED <<keys, devices, nextId, clock>>
    /\ UNCHANGED hubVars
    /\ UNCHANGED clockVars

History(id, limit) ==
    /\ LockFree
    /\ ApiCall
    /\ resp' = [Response("history", id, HistoryResult(id, limit).err, NoReading)
                    EXCEPT !.readings = HistoryResult(id, limit).readings]
    /\ lock' = LockOnExit(resp'.err)
    /\ UNCHANGED <<keys, devices, nextId, clock, held>>
    /\ UNCHANGED hubVars
    /\ UNCHANGED clockVars

Current(id) ==
    /\ LockFree
    /\ ApiCall
    /\ resp' = Response("current", id, CurrentResult(id).err, CurrentResult(id).reading)
    /\ lock' = LockOnExit(resp'.err)
    /\ UNCHANGED <<keys, devices, nextId, clock, held>>
    /\ UNCHANGED hubVars
    /\ UNCHANGED clockVars

Update(id, cfg) ==
    /\ LockFree
    /\ ApiCall
    /\ IF id \notin DOMAIN devices
       THEN /\ resp' = Response("update", id, "KeyError", NoReading)
            /\ UNCHANGED <<devices, held>>
       ELSE /\ devices' = [devices EXCEPT ![id].device.config = cfg,
                                          ![id].device.updated_at = clock]
            /\ resp' = Response("update", id, "none", NoReading)
            /\ held' = Returned(id, devices')
    /\ lock' = LockOnExit(resp'.err)
    /\ UNCHANGED <<keys, nextId, clock>>
    /\ UNCHANGED hubVars
    /\ UNCHANGED clockVars

Delete(id) ==
    /\ LockFree
    /\ ApiCall
    /\ IF id \in DOMAIN devices
       THEN /\ devices' = DeleteEntry(devices, id)
            /\ keys' = SelectSeq(keys, LAMBDA k : k # id)
            /\ resp' = Response("delete", id, "none", NoReading)
       ELSE /\ resp' = Response("delete", id, "KeyError", NoReading)
            /\ UNCHANGED <<devices, keys>>
    /\ lock' = LockOnExit(resp'.err)
    /\ UNCHANGED <<nextId, clock, held>>
    /\ UNCHANGED hubVars
    /\ UNCHANGED clockVars

SetStatus(id, status) ==
    /\ LockFree
    /\ ApiCall
    /\ IF id \notin DOMAIN devices
       THEN /\ resp' = [Response("set_status", id, "KeyError", NoReading)
                            EXCEPT !.arg = status]
            /\ UNCHANGED <<devices, held>>
       ELSE IF ~StatusValid(status)
       THEN /\ resp' = [Response("set_status", id, "ValueError", NoReading)
                            EXCEPT !.arg = status]
            /\ UNCHANGED <<devices, held>>
       ELSE /\ devices' = [devices EXCEPT ![id].device.status = status,
                                          ![id].device.updated_at = clock]
            /\ resp' = [Response("set_status", id, "none", NoReading)
                            EXCEPT !.arg = status]
            /\ held' = Returned(id, devices')
    /\ lock' = LockOnExit(resp'.err)
    /\ UNCHANGED <<keys, nextId, clock>>
    /\ UNCHANGED hubVars
    /\ UNCHANGED clockVars

SetWatering(id, on) ==
    /\ LockFree
    /\ ApiCall
    /\ IF id \notin DOMAIN devices
       THEN /\ resp' = [Response("set_watering", id, "KeyError", NoReading)
                            EXCEPT !.arg = OnOff(on)]
            /\ UNCHANGED <<devices, held>>
       ELSE IF ~WateringAllowed(devices[id].device)
       THEN /\ resp' = [Response("set_watering", id, "RuntimeError", NoReading)
                            EXCEPT !.arg = OnOff(on)]
            /\ UNCHANGED <<devices, held>>
       ELSE /\ devices' = [devices EXCEPT ![id].device.watering = on,
                                          ![id].device.updated_at = clock]
            /\ resp' = [Response("set_watering", id, "none", NoReading)
                            EXCEPT !.arg = OnOff(on)]
            /\ held' = Returned(id, devices')
    /\ lock' = LockOnExit(resp'.err)
    /\ UNCHANGED <<keys, nextId, clock>>
    /\ UNCHANGED hubVars
    /\ UNCHANGED clockVars


\* ------------------------------------------------------ tick sweep (_tick_all)
\* _heat_factor: max(0, min(0.3, (temp - mean) / 10)) in thousandths, where
\* temp - mean = temp_amp_c * sin(phase - pi/2).
HeatFactor(sinv, cfg) == Clamp(cfg.temp_amp_c * sinv * 100, 0, 300)

\* dry_rate * TICK_SECONDS of the drying branch.
DryAmount(sinv, cfg) ==
    ((cfg.evaporation_rate + cfg.leak_rate) * (1000 + HeatFactor(sinv, cfg))
        * TICK_SECONDS) \div 1000

\* (battery_drain_per_hour / 3600) * TICK_SECONDS
DrainAmount(cfg) == (cfg.battery_drain_per_hour * TICK_SECONDS) \div 3600

\* (battery_drain_per_hour / 3600) * TICK_SECONDS * 0.05
OfflineDrainFull(cfg) == DrainAmount(cfg)
OfflineDrainAmount(cfg) == (cfg.battery_drain_per_hour * TICK_SECONDS * 5) \div 360000

\* The auto-mode step: the watering flag after the threshold comparison.
AutoWateringNoHysteresis(d, moisture) ==
    IF d.config.auto_mode /\ d.status = OK
    THEN moisture < d.config.min_threshold
    ELSE d.watering
AutoWateringAnyStatus(d, moisture) ==
    IF d.config.auto_mode
    THEN IF moisture < d.config.min_threshold THEN TRUE
         ELSE IF moisture >= d.config.max_threshold THEN FALSE
         ELSE d.watering
    ELSE d.watering
AutoWatering(d, moisture) ==
    IF d.config.auto_mode /\ d.status = OK
    THEN IF moisture < d.config.min_threshold THEN TRUE
         ELSE IF moisture >= d.config.max_threshold THEN FALSE
         ELSE d.watering
    ELSE d.watering

\* One device's step of the sweep; noise is sign * magnitude of the fault draw.
TickDevice(d, now, noise, sinv) ==
    IF d.status = OFFLINE
    THEN [d EXCEPT !.battery = Clamp(d.battery - OfflineDrainAmount(d.config), 0, Pct(100)),
                   !.updated_at = now]
    ELSE LET m1 == IF d.status = FAULT
                   THEN Clamp(d.moisture + noise, 0, Pct(100))
                   ELSE d.moisture
             m2 == IF d.watering
                   THEN Clamp(m1 + d.config.irrigation_rate * TICK_SECONDS, 0, Pct(100))
                   ELSE Clamp(m1 - DryAmount(sinv, d.config), 0, Pct(100))
         IN  [d EXCEPT !.moisture = m2,
                       !.watering = AutoWatering(d, m2),
                       !.battery = Clamp(d.battery - DrainAmount(d.config), 0, Pct(100)),
                       !.updated_at = now]

\* The store after the sweep: every entry stepped and its reading appended.
TickAll(devs, now, noise, sinv) ==
    [id \in DOMAIN devs |->
        AppendReadingUnlocked(
            [devs[id] EXCEPT !.device = TickDevice(devs[id].device, now, noise[id], sinv)],
            now)]

\* The batch `readings` of the sweep, in dict order.
TickReadingsReversed(devs, ks) ==
    [i \in 1..Len(ks) |->
        devs[ks[Len(ks) + 1 - i]].history[Len(devs[ks[Len(ks) + 1 - i]].history)]]
TickReadings(devs, ks) ==
    [i \in 1..Len(ks) |-> devs[ks[i]].history[Len(devs[ks[i]].history)]]

Noises == {s * m : s \in NoiseSigns, m \in NoiseMags}

\* ------------------------------------------------- observers and broadcast
NoLoop == [pc |-> "none", readings |-> <<>>, targets |-> <<>>, idx |-> 0,
           dead |-> <<>>, uidx |-> 0]
NewLoop == [NoLoop EXCEPT !.pc = "created"]
SleepLoop == [NoLoop EXCEPT !.pc = "sleep"]
DoneLoop == [NoLoop EXCEPT !.pc = "done"]

Message(src, data) == [src |-> src, data |-> data]
Sending(sender, msg) == [sender |-> sender, msg |-> msg]

\* list(self._ws_clients): the set in some iteration order.
Orderings(S) ==
    {q \in [1..Cardinality(S) -> S] : \A a, b \in 1..Cardinality(S) : a # b => q[a] # q[b]}

SeqToSet(q) == {q[i] : i \in 1..Len(q)}

\* The lock as _tick_all leaves it when it calls _broadcast (line 270 is outside
\* the `async with` block).
LockHeldOverBroadcast(holder) == holder
LockAtBroadcast(holder) == "free"

\* The catch-up data of readings_ws: list(), then current(d.id) for each device,
\* skipping a device whose current() raises.
CatchupSkipsLast(devs, ks) ==
    [i \in 1..(Len(ks) - 1) |-> devs[ks[i]].history[Len(devs[ks[i]].history)]]
CatchupData(devs, ks) ==
    LET good == SelectSeq(ks, LAMBDA k : k \in DOMAIN devs /\ devs[k].history # <<>>)
    IN  [i \in 1..Len(good) |-> devs[good[i]].history[Len(devs[good[i]].history)]]


\* _broadcast's `except Exception: dead.append(ws)` around one send_json.
DeadNeverMarked(dead, w, ok) == dead
DeadAfterSend(dead, w, ok) == IF ok THEN dead ELSE Append(dead, w)

StartSend(ch, w, sender, msg) == [ch EXCEPT ![w] = Append(@, Sending(sender, msg))]

\* The observers _broadcast iterates: list(self._ws_clients) at the start of the pass.
BroadcastTargetsAll(clients, order) ==
    CHOOSE q \in Orderings({w \in WsIds : wsPc[w] \in {"accept", "catchup", "recv"}}) : TRUE
BroadcastTargets(clients, order) == order

\* What stop() does to a loop's position: it only sets the event.
StopCancelsTask(pc) == IF pc \in {"send", "close"} THEN "done" ELSE pc
StopEffect(pc) == pc

\* start(): whether the guard `self._task and not self._task.done()` returns early.
StartAlways(ref, ls) == FALSE
StartIsNoop(ref, ls) == ref # 0 /\ ls[ref].pc # "done"

\* _loop: one pass of `while not self._stop.is_set()` that enters the body:
\* _tick_all's sweep under the lock, then _broadcast up to its first suspension.
LoopTick(g, sins) ==
    /\ loops[g].pc \in {"created", "sleep"}
    /\ ~stopEvent
    /\ clock < MaxClock
    /\ LockFree
    /\ \E noise \in [DOMAIN devices -> Noises], sinv \in sins,
          order \in Orderings(ws_clients) :
        LET now == clock + 1
            devs == TickAll(devices, now, noise, sinv)
            readings == TickReadings(devs, keys)
            targets == BroadcastTargets(ws_clients, order)
        IN  /\ clock' = now
            /\ devices' = devs
            /\ lock' = LockAtBroadcast("loop")
            /\ resp' = Response("tick", 0, "none", NoReading)
            /\ IF readings = <<>> \/ targets = <<>>
               THEN /\ loops' = [loops EXCEPT ![g] = SleepLoop]
                    /\ UNCHANGED chan
               ELSE /\ loops' = [loops EXCEPT ![g] =
                            [pc |-> "send", readings |-> readings, targets |-> targets,
                             idx |-> 1, dead |-> <<>>, uidx |-> 0]]
                    /\ chan' = StartSend(chan, targets[1], g,
                                         Message("_broadcast", readings))
    /\ UNCHANGED <<keys, nextId, ops, held, ws_clients, wsPc, alive, inbox>>
    /\ UNCHANGED <<stopEvent, taskRef, stopPc, stopAwait>>

\* _loop: the while condition finds the stop event set; the task ends.
LoopExit(g) ==
    /\ loops[g].pc \in {"created", "sleep"}
    /\ stopEvent
    /\ loops' = [loops EXCEPT ![g] = DoneLoop]
    /\ UNCHANGED storeVars
    /\ UNCHANGED hubVars
    /\ UNCHANGED <<stopEvent, taskRef, stopPc, stopAwait>>

\* _broadcast: the send_json to targets[idx] completes (or raises); the pass goes
\* on to the next observer, or ends and unregisters the first dead one.
BroadcastSendComplete(g) ==
    LET L == loops[g]
        w == L.targets[L.idx]
        ok == alive[w]
        dead == DeadAfterSend(L.dead, w, ok)
        ch == [chan EXCEPT ![w] = Tail(@)]
    IN  /\ L.pc = "send"
        /\ chan[w] # <<>>
        /\ Head(chan[w]).sender = g
        /\ inbox' = IF ok THEN [inbox EXCEPT ![w] = Append(@, Head(chan[w]).msg)]
                    ELSE inbox
        /\ IF L.idx < Len(L.targets)
           THEN /\ loops' = [loops EXCEPT ![g].idx = L.idx + 1, ![g].dead = dead]
                /\ chan' = StartSend(ch, L.targets[L.idx + 1], g,
                                     Message("_broadcast", L.readings))
                /\ UNCHANGED <<ws_clients, alive, lock>>
           ELSE IF dead = <<>>
           THEN /\ loops' = [loops EXCEPT ![g] = SleepLoop]
                /\ chan' = ch
                /\ UNCHANGED <<ws_clients, alive, lock>>
           ELSE /\ LockFree
                /\ ws_clients' = ws_clients \ {dead[1]}
                /\ alive' = [alive EXCEPT ![dead[1]] = FALSE]
                /\ loops' = [loops EXCEPT ![g].pc = "close", ![g].dead = dead,
                                          ![g].uidx = 1]
                /\ chan' = ch
                /\ UNCHANGED lock
        /\ UNCHANGED <<keys, devices, nextId, clock, resp, ops, held, wsPc>>
        /\ UNCHANGED <<stopEvent, taskRef, stopPc, stopAwait>>

\* _broadcast: the ws.close() of unregister_ws(dead[uidx]) returns; the next dead
\* observer is unregistered, or _broadcast returns and the loop sleeps.
BroadcastCloseComplete(g) ==
    LET L == loops[g] IN
    /\ L.pc = "close"
    /\ IF L.uidx < Len(L.dead)
       THEN /\ LockFree
            /\ ws_clients' = ws_clients \ {L.dead[L.uidx + 1]}
            /\ alive' = [alive EXCEPT ![L.dead[L.uidx + 1]] = FALSE]
            /\ loops' = [loops EXCEPT ![g].uidx = L.uidx + 1]
       ELSE /\ loops' = [loops EXCEPT ![g] = SleepLoop]
            /\ UNCHANGED <<ws_clients, alive>>
    /\ UNCHANGED storeVars
    /\ UNCHANGED <<wsPc, chan, inbox>>
    /\ UNCHANGED <<stopEvent, taskRef, stopPc, stopAwait>>

\* start()
Start ==
    /\ ~StartIsNoop(taskRef, loops)
    /\ taskRef < MaxStarts
    /\ stopEvent' = FALSE
    /\ taskRef' = taskRef + 1
    /\ loops' = [loops EXCEPT ![taskRef + 1] = NewLoop]
    /\ UNCHANGED storeVars
    /\ UNCHANGED hubVars
    /\ UNCHANGED <<stopPc, stopAwait>>

\* stop(): set the event, then `if self._task: await self._task` (no suspension
\* when there is no task or it is already done).
StopCall ==
    /\ stopPc \in {"idle", "returned"}
    /\ stopEvent' = TRUE
    /\ stopAwait' = taskRef
    /\ stopPc' = IF taskRef = 0 \/ loops[taskRef].pc = "done" THEN "returned"
                 ELSE "waiting"
    /\ loops' = [g \in Gens |-> [loops[g] EXCEPT !.pc = StopEffect(@)]]
    /\ UNCHANGED storeVars
    /\ UNCHANGED hubVars
    /\ UNCHANGED taskRef

\* stop(): the awaited task has ended; stop() returns.
StopReturn ==
    /\ stopPc = "waiting"
    /\ loops[stopAwait].pc = "done"
    /\ stopPc' = "returned"
    /\ UNCHANGED storeVars
    /\ UNCHANGED hubVars
    /\ UNCHANGED <<stopEvent, taskRef, loops, stopAwait>>

\* A client opens a connection; readings_ws awaits ws.accept() in register_ws.
Connect(w) ==
    /\ wsPc[w] = "none"
    /\ wsPc' = [wsPc EXCEPT ![w] = "accept"]
    /\ UNCHANGED storeVars
    /\ UNCHANGED clockVars
    /\ UNCHANGED <<ws_clients, alive, chan, inbox>>

\* The peer's connection goes down (environment).
Drop(w) ==
    /\ wsPc[w] # "none"
    /\ alive[w]
    /\ alive' = [alive EXCEPT ![w] = FALSE]
    /\ UNCHANGED storeVars
    /\ UNCHANGED clockVars
    /\ UNCHANGED <<ws_clients, wsPc, chan, inbox>>

\* register_ws after accept() returned, then readings_ws up to the catch-up
\* send_json; accept() raising ends the handler outside its try block.
Register(w) ==
    /\ wsPc[w] = "accept"
    /\ IF alive[w]
       THEN /\ LockFree
            /\ ws_clients' = ws_clients \cup {w}
            /\ chan' = StartSend(chan, w, 0,
                                 Message("readings_ws", CatchupData(devices, keys)))
            /\ wsPc' = [wsPc EXCEPT ![w] = "catchup"]
       ELSE /\ wsPc' = [wsPc EXCEPT ![w] = "end"]
            /\ UNCHANGED <<ws_clients, chan>>
    /\ UNCHANGED storeVars
    /\ UNCHANGED clockVars
    /\ UNCHANGED <<alive, inbox>>

\* readings_ws: the catch-up send_json completes, or raises and the handler
\* unregisters the socket.
CatchupSendComplete(w) ==
    /\ wsPc[w] = "catchup"
    /\ chan[w] # <<>>
    /\ Head(chan[w]).sender = 0
    /\ chan' = [chan EXCEPT ![w] = Tail(@)]
    /\ IF alive[w]
       THEN /\ inbox' = [inbox EXCEPT ![w] = Append(@, Head(chan[w]).msg)]
            /\ wsPc' = [wsPc EXCEPT ![w] = "recv"]
            /\ UNCHANGED ws_clients
       ELSE /\ LockFree
            /\ ws_clients' = ws_clients \ {w}
            /\ wsPc' = [wsPc EXCEPT ![w] = "close"]
            /\ UNCHANGED inbox
    /\ UNCHANGED storeVars
    /\ UNCHANGED clockVars
    /\ UNCHANGED alive

\* readings_ws: receive_text raises WebSocketDisconnect; the handler unregisters.
Disconnect(w) ==
    /\ wsPc[w] = "recv"
    /\ ~alive[w]
    /\ LockFree
    /\ ws_clients' = ws_clients \ {w}
    /\ wsPc' = [wsPc EXCEPT ![w] = "close"]
    /\ UNCHANGED storeVars
    /\ UNCHANGED clockVars
    /\ UNCHANGED <<alive, chan, inbox>>

\* unregister_ws called by the handler: ws.close() returns (or raises, ignored).
HandlerCloseComplete(w) ==
    /\ wsPc[w] = "close"
    /\ wsPc' = [wsPc EXCEPT ![w] = "end"]
    /\ UNCHANGED storeVars
    /\ UNCHANGED clockVars
    /\ UNCHANGED <<ws_clients, alive, chan, inbox>>

\* ---------------------------------------------------------- specifications
StatusArgs == DeviceStatus \cup {"bogus"}
\* `limit` arguments of history(): the most recent reading, or a full history.
Limits == {1, MAX_HISTORY}

Init ==
    /\ keys = <<>>
    /\ devices = <<>>
    /\ nextId = 0
    /\ clock = 0
    /\ lock = "free"
    /\ resp = Response("init", 0, "none", NoReading)
    /\ ops = 0
    /\ held = NoDevice
    /\ ws_clients = {}
    /\ stopEvent = FALSE
    /\ taskRef = 0
    /\ loops = [g \in Gens |-> NoLoop]
    /\ stopPc = "idle"
    /\ stopAwait = 0
    /\ wsPc = [w \in WsIds |-> "none"]
    /\ alive = [w \in WsIds |-> TRUE]
    /\ chan = [w \in WsIds |-> <<>>]
    /\ inbox = [w \in WsIds |-> <<>>]

\* create(DeviceCreate(name="Monstera - Office", ..., initial_moisture=58.0))
SeedPayload == [initial_moisture |-> Pct(58), battery |-> Pct(100), config |-> CfgDefault]

StoreOp ==
    \/ \E p \in Payloads : Create(p)
    \/ \E id \in DevIds : Get(id)
    \/ \E id \in DevIds, limit \in Limits : History(id, limit)
    \/ \E id \in DevIds : Current(id)
    \/ \E id \in DevIds, cfg \in Configs : Update(id, cfg)
    \/ \E id \in DevIds : Delete(id)
    \/ \E id \in DevIds, st \in StatusArgs : SetStatus(id, st)
    \/ \E id \in DevIds, on \in BOOLEAN : SetWatering(id, on)

ObserverOp ==
    \/ \E w \in WsIds : Connect(w)
    \/ \E w \in WsIds : Register(w)
    \/ \E w \in WsIds : CatchupSendComplete(w)
    \/ \E g \in Gens : BroadcastSendComplete(g)

FailureOp ==
    \/ \E w \in WsIds : Drop(w)
    \/ \E w \in WsIds : Disconnect(w)
    \/ \E w \in WsIds : HandlerCloseComplete(w)
    \/ \E g \in Gens : BroadcastCloseComplete(g)

\* The store under API calls and the tick sweep (no observers).
NextStore ==
    \/ StoreOp
    \/ Start
    \/ \E g \in Gens : LoopTick(g, SinValues)

SpecStore == Init /\ [][NextStore]_vars

\* Observers, their failures and the broadcast of a running loop.
NextHub ==
    \/ Create(SeedPayload)
    \/ \E id \in DevIds : Delete(id)
    \/ Start
    \/ \E g \in Gens : LoopTick(g, {0})
    \/ ObserverOp
    \/ FailureOp

SpecHub == Init /\ [][NextHub]_vars

\* The whole store API against a running loop with one observer and its failure.
NextSweep ==
    \/ StoreOp
    \/ Start
    \/ \E g \in Gens : LoopTick(g, {0})
    \/ \E w \in WsIds : (\A v \in WsIds : w <= v) /\ Connect(w)
    \/ \E w \in WsIds : Register(w)
    \/ \E w \in WsIds : CatchupSendComplete(w)
    \/ \E g \in Gens : BroadcastSendComplete(g)
    \/ FailureOp

SpecSweep == Init /\ [][NextSweep]_vars

\* start() and stop() against the loop and its broadcast.
NextClock ==
    \/ Create(SeedPayload)
    \/ Start
    \/ StopCall
    \/ StopReturn
    \/ \E g \in Gens : LoopTick(g, {0})
    \/ \E g \in Gens : LoopExit(g)
    \/ ObserverOp

SpecClock == Init /\ [][NextClock]_vars

\* The running loop with observers, under the scheduling asyncio guarantees:
\* a task whose await has completed is resumed, the sleep timer fires, and
\* sends to responsive peers complete.  Nothing makes a send to an
\* unresponsive peer (SlowWs) complete.
SlowWs == CHOOSE w \in WsIds : TRUE

NextLive ==
    \/ Create(SeedPayload)
    \/ Start
    \/ \E g \in Gens : LoopTick(g, {0})
    \/ ObserverOp

SpecLive ==
    /\ Init
    /\ [][NextLive]_vars
    /\ WF_vars(\E g \in Gens : LoopTick(g, {0}))
    /\ WF_vars(\E g \in Gens :
            /\ loops[g].pc = "send"
            /\ loops[g].targets[loops[g].idx] # SlowWs
            /\ BroadcastSendComplete(g))
    /\ WF_vars(\E w \in WsIds \ {SlowWs} : CatchupSendComplete(w))


\* start() and stop() against the loop when nothing is said about how long the
\* sleep lasts: a started task runs, sends complete and stop() resumes once its
\* task has ended, but a loop inside asyncio.sleep(TICK_SECONDS) resumes only
\* when that timer expires.
SpecStop ==
    /\ Init
    /\ [][NextClock]_vars
    /\ WF_vars(StopReturn)
    /\ WF_vars(\E g \in Gens :
            loops[g].pc = "created" /\ (LoopTick(g, {0}) \/ LoopExit(g)))
    /\ WF_vars(\E g \in Gens : BroadcastSendComplete(g))
    /\ WF_vars(\E w \in WsIds : CatchupSendComplete(w))

\* ------------------------------------------------------------------ claims
Last(q) == q[Len(q)]
Front(q) == SubSeq(q, 1, Len(q) - 1)
SeedMoistures == {Round2(m) : m \in InitialMoistures}

\* C1: in every reachable state every stored device has 0 <= moisture <= 100 and
\* 0 <= battery <= 100.
C1_MoistureBatteryInRange ==
    \A id \in DOMAIN devices :
        /\ 0 <= devices[id].device.moisture
        /\ devices[id].device.moisture <= Pct(100)
        /\ 0 <= devices[id].device.battery
        /\ devices[id].device.battery <= Pct(100)

\* The tick that has just run clamped a device's battery at 0.
C1_Witness ==
    /\ clock > 0
    /\ \E id \in DOMAIN devices :
        /\ devices[id].device.battery = 0
        /\ devices[id].device.updated_at = clock
        /\ Last(devices[id].history).timestamp = clock

\* C2: no history is ever longer than MAX_HISTORY; every tick leaves its new
\* reading as the last one of each history; and every step that changes a
\* history keeps the older readings in order, evicting the oldest one exactly
\* when the history was full.
C2_HistoryBoundedFifo ==
    /\ [](\A id \in DOMAIN devices : Len(devices[id].history) <= MAX_HISTORY)
    /\ [][clock' # clock =>
            \A id \in DOMAIN devices' : Last(devices'[id].history).timestamp = clock']_vars
    /\ [][\A id \in DOMAIN devices \cap DOMAIN devices' :
            devices'[id].history # devices[id].history =>
                /\ devices'[id].history # <<>>
                /\ Front(devices'[id].history) =
                      IF Len(devices[id].history) >= MAX_HISTORY
                      THEN Tail(devices[id].history)
                      ELSE devices[id].history]_vars

\* A full history whose oldest reading is no longer the seed reading: the seed
\* has been evicted.
C2_Witness ==
    \E id \in DOMAIN devices :
        /\ Len(devices[id].history) = MAX_HISTORY
        /\ devices[id].history[1].timestamp > 0
        /\ devices[id].history[1].moisture \notin SeedMoistures

\* C3 (as amended): every stored device has a non-empty history, and right after
\* create (no operation since) current(id) succeeds with a reading whose moisture
\* is the initial moisture rounded to two decimals.
C3_SeededOnCreate ==
    /\ \A id \in DOMAIN devices : devices[id].history # <<>>
    /\ resp.op = "create" =>
        /\ CurrentResult(resp.id).err = "none"
        /\ CurrentResult(resp.id).reading.moisture =
              Round2(devices[resp.id].device.moisture)
        /\ CurrentResult(resp.id).reading.timestamp = devices[resp.id].device.updated_at

\* create has just returned a device whose initial moisture is not a multiple
\* of 0.01.
C3_Witness ==
    /\ resp.op = "create"
    /\ devices[resp.id].device.moisture = 58123
    /\ CurrentResult(resp.id).reading.moisture = 58120

\* C3 as stated: the reading current(id) returns right after create has exactly
\* the device's initial moisture.
C3_Original ==
    resp.op = "create" =>
        /\ CurrentResult(resp.id).err = "none"
        /\ CurrentResult(resp.id).reading.moisture = devices[resp.id].device.moisture


CatchupCount(w) ==
    Cardinality({i \in 1..Len(inbox[w]) : inbox[w][i].src = "readings_ws"})

\* C4: every observer receives its catch-up snapshot first and only once: no
\* _broadcast message is delivered before it, a handler that has passed its
\* catch-up send has delivered exactly one, and while a registered observer's
\* catch-up is still in flight every broadcast to it is queued behind it.
C4_CatchupFirst ==
    \A w \in WsIds :
        /\ inbox[w] # <<>> => inbox[w][1].src = "readings_ws"
        /\ CatchupCount(w) <= 1
        /\ wsPc[w] = "recv" => CatchupCount(w) = 1
        /\ wsPc[w] \in {"none", "accept"} => inbox[w] = <<>> /\ chan[w] = <<>>
        /\ wsPc[w] = "catchup" =>
              /\ inbox[w] = <<>>
              /\ chan[w] # <<>>
              /\ chan[w][1].sender = 0

\* A tick broadcast to an observer was started while its catch-up snapshot was
\* still in flight.
C4_Witness ==
    \E w \in WsIds :
        /\ Len(chan[w]) = 2
        /\ chan[w][1].msg.src = "readings_ws"
        /\ chan[w][2].msg.src = "_broadcast"
        /\ chan[w][2].msg.data # <<>>

LatestReadings(devs, ks) == [i \in 1..Len(ks) |-> Last(devs[ks[i]].history)]

\* C5: the catch-up batch handed to send_json when an observer registers holds
\* exactly the latest reading of every device in the store, one per device; and
\* every tick with a non-empty batch targets every registered observer with that
\* batch, delivers it to each in turn while the connection is up, and goes on to
\* the next target whatever the outcome.
C5_CatchupThenEveryTick ==
    /\ [][\A w \in WsIds :
            (wsPc[w] = "accept" /\ wsPc'[w] = "catchup") =>
                /\ w \in ws_clients'
                /\ chan'[w] = <<Sending(0, Message("readings_ws",
                                                   LatestReadings(devices, keys)))>>
                /\ Len(chan'[w][1].msg.data) = Cardinality(DOMAIN devices)]_vars
    /\ [][\A g \in Gens :
            (clock' # clock /\ loops'[g] # loops[g] /\ keys # <<>> /\ ws_clients # {}) =>
                /\ loops'[g].readings = LatestReadings(devices', keys)
                /\ Len(loops'[g].readings) = Cardinality(DOMAIN devices)
                /\ SeqToSet(loops'[g].targets) = ws_clients
                /\ Len(loops'[g].targets) = Cardinality(ws_clients)
                /\ loops'[g].pc = "send"
                /\ loops'[g].idx = 1]_vars
    /\ [][\A g \in Gens :
            (loops[g].pc = "send" /\ loops'[g] # loops[g]) =>
                LET w == loops[g].targets[loops[g].idx] IN
                /\ alive[w] => inbox'[w] = Append(inbox[w],
                                   Message("_broadcast", loops[g].readings))
                /\ loops[g].idx < Len(loops[g].targets) =>
                      /\ loops'[g].pc = "send"
                      /\ loops'[g].idx = loops[g].idx + 1
                      /\ loops'[g].readings = loops[g].readings
                      /\ loops'[g].targets = loops[g].targets]_vars
    /\ [](\A g \in Gens : loops[g].pc = "send" =>
            LET w == loops[g].targets[loops[g].idx] IN
            \E i \in 1..Len(chan[w]) :
                chan[w][i] = Sending(g, Message("_broadcast", loops[g].readings)))

\* An observer has received a catch-up snapshot with one reading for each of two
\* devices, taken after a tick, and then the batch of the next tick.
C5_Witness ==
    \E w \in WsIds :
        /\ Len(inbox[w]) >= 2
        /\ inbox[w][1].src = "readings_ws"
        /\ Len(inbox[w][1].data) = 2
        /\ inbox[w][1].data[1].device_id # inbox[w][1].data[2].device_id
        /\ inbox[w][1].data[1].timestamp > 0
        /\ inbox[w][2].src = "_broadcast"
        /\ inbox[w][2].data[1].timestamp = inbox[w][1].data[1].timestamp + 1


\* The dead list a loop has when its broadcast returns.
FinalDead(L) == IF L.pc = "close" THEN SeqToSet(L.dead) ELSE {}
BroadcastReturns(g) == loops[g].pc \in {"send", "close"} /\ loops'[g].pc = "sleep"
PassEnds(g) == loops[g].pc = "send" /\ loops'[g].pc # "send"

\* C6 as stated: when a broadcast completes, every target whose delivery failed
\* is out of the live set and every target whose delivery succeeded is in it.
C6_Original ==
    [][\A g \in Gens :
        BroadcastReturns(g) =>
            \A w \in SeqToSet(loops[g].targets) :
                IF w \in FinalDead(loops[g]) THEN w \notin ws_clients'
                ELSE w \in ws_clients']_vars

\* C6 (as amended): a delivery pass ends only after its last target was
\* attempted and never ends the loop; a target is marked dead exactly when its
\* send failed; when the broadcast returns every dead target is out of the live
\* set and every other target is in it unless its own handler unregistered it;
\* an observer leaves the live set only through its own handler or through a
\* broadcast that has ended its pass and holds it as dead; a tick over an empty
\* store sends nothing.
C6_BroadcastContainsFailures ==
    /\ [][\A g \in Gens :
            PassEnds(g) =>
                /\ loops[g].idx = Len(loops[g].targets)
                /\ loops'[g].pc \in {"sleep", "close"}]_vars
    /\ [][\A g \in Gens :
            (loops[g].pc = "send" /\ loops'[g] # loops[g]) =>
                LET w == loops[g].targets[loops[g].idx]
                    deadNow == IF loops'[g].pc = "sleep" THEN {}
                               ELSE SeqToSet(loops'[g].dead)
                IN  /\ alive[w] <=> w \notin deadNow
                    /\ deadNow \ {w} = SeqToSet(loops[g].dead)
                    /\ deadNow \subseteq SeqToSet(loops[g].targets)]_vars
    /\ [][\A g \in Gens :
            BroadcastReturns(g) =>
                \A w \in SeqToSet(loops[g].targets) :
                    IF w \in FinalDead(loops[g]) THEN w \notin ws_clients'
                    ELSE w \in ws_clients' \/ wsPc[w] \in {"close", "end"}]_vars
    /\ [][\A w \in ws_clients \ ws_clients' :
            \/ wsPc[w] # "close" /\ wsPc'[w] = "close"
            \/ \E g \in Gens :
                /\ loops'[g] # loops[g]
                /\ loops'[g].pc = "close"
                /\ loops[g].pc = "close" \/ PassEnds(g)
                /\ loops'[g].dead[loops'[g].uidx] = w]_vars
    /\ [][(clock' # clock /\ keys = <<>>) => chan' = chan /\ inbox' = inbox]_vars

\* A pass over two observers has ended with one delivery failed and the other
\* succeeded: the failed one is unregistered, the other still registered.
C6_Witness ==
    \E g \in Gens :
        /\ loops[g].pc = "close"
        /\ Len(loops[g].targets) = 2
        /\ Len(loops[g].dead) = 1
        /\ loops[g].dead[1] \notin ws_clients
        /\ \E w \in ws_clients :
            /\ w \in SeqToSet(loops[g].targets)
            /\ Last(inbox[w]).data = loops[g].readings

NetworkBusy ==
    \/ \E w \in WsIds : chan[w] # <<>> \/ wsPc[w] \in {"accept", "catchup", "close"}
    \/ \E g \in Gens : loops[g].pc \in {"send", "close"}

\* C7: whenever a send to, an accept from or a close on an observer is in
\* progress, no task holds the store lock.
C7_NoLockAcrossNetwork == NetworkBusy => lock = "free"

\* A broadcast send and a handler's accept are in progress at the same time.
C7_Witness ==
    /\ lock = "free"
    /\ \E g \in Gens : loops[g].pc = "send" /\ chan[loops[g].targets[loops[g].idx]] # <<>>
    /\ \E w \in WsIds : wsPc[w] = "accept"


LoopActive(g) == loops[g].pc \in {"created", "send", "close", "sleep"}

\* C8: while a loop is running and not stopped, the next tick is eventually
\* executed, whatever the observers do (the bound on the clock aside).
C8_LoopNeverBlocked ==
    \A g \in Gens : \A n \in 0..(MaxClock - 1) :
        (LoopActive(g) /\ ~stopEvent /\ clock = n) ~> (clock > n \/ stopEvent)


\* C9: stop() only signals: the step of a stop() call changes nothing of the
\* loop, the store or the sends in flight; a loop ends only between two
\* iterations (never inside a sweep's broadcast) and only with the stop event
\* set; stop() has returned only if the task it awaited has ended; and while no
\* start() has replaced that task since, no loop is active.
C9_GracefulStop ==
    /\ [][stopPc' # stopPc => loops' = loops /\ devices' = devices /\ chan' = chan]_vars
    /\ [][\A g \in Gens :
            (loops'[g].pc = "done" /\ loops[g].pc # "done") =>
                loops[g].pc \in {"created", "sleep"} /\ stopEvent]_vars
    /\ [](stopPc = "returned" => stopAwait = 0 \/ loops[stopAwait].pc = "done")
    /\ []((stopPc = "returned" /\ taskRef = stopAwait) => \A g \in Gens : ~LoopActive(g))

\* stop() was called while a sweep's broadcast was in flight and is waiting; the
\* broadcast is still going on.
C9_Witness ==
    /\ stopPc = "waiting"
    /\ stopEvent
    /\ \E g \in Gens :
        /\ g = stopAwait
        /\ loops[g].pc = "send"
        /\ loops[g].idx = 2

\* C10: at most one loop is active and it is the one self._task refers to;
\* start() creates a task only when no loop is active, and then clears the stop
\* event so that the new loop can tick.
C10_SingleLoop ==
    /\ [](Cardinality({g \in Gens : LoopActive(g)}) <= 1)
    /\ [](\A g \in Gens : LoopActive(g) => g = taskRef)
    /\ [][taskRef' # taskRef =>
            /\ \A g \in Gens : ~LoopActive(g)
            /\ ~stopEvent'
            /\ loops'[taskRef'].pc = "created"]_vars
    /\ [][\A g \in Gens :
            (clock' # clock /\ loops'[g] # loops[g]) => g = taskRef /\ ~stopEvent]_vars

\* After a completed stop(), start() has created a second loop and it has ticked.
C10_Witness ==
    /\ taskRef > 1
    /\ loops[taskRef - 1].pc = "done"
    /\ loops[taskRef].pc = "sleep"
    /\ stopPc = "returned"
    /\ stopAwait = taskRef - 1
    /\ clock > 0
    /\ \E id \in DOMAIN devices : Last(devices[id].history).timestamp = clock


\* A step of the store operation `op` (the call has just returned or raised).
Called(op) == ops' # ops /\ resp'.op = op

\* C11: set_watering on a stored device whose status is offline raises
\* RuntimeError (Conflict) and leaves the store as it was; on any other stored
\* device it succeeds, returns the device with the requested flag, and a get(id)
\* that follows shows the requested flag.
C11_SetWateringOffline ==
    [][(Called("set_watering") /\ resp'.id \in DOMAIN devices) =>
        LET id == resp'.id IN
        IF devices[id].device.status = OFFLINE
        THEN /\ resp'.err = "RuntimeError"
             /\ devices' = devices
             /\ keys' = keys
        ELSE /\ resp'.err = "none"
             /\ GetIn(devices', id).err = "none"
             /\ GetIn(devices', id).device.watering = (resp'.arg = "on")
             /\ held'.seen.watering = (resp'.arg = "on")
             /\ devices'[id].history = devices[id].history]_vars

\* set_watering(id, true) has just been refused on an offline device that is not
\* watering.
C11_Witness ==
    /\ resp.op = "set_watering"
    /\ resp.arg = "on"
    /\ resp.err = "RuntimeError"
    /\ resp.id \in DOMAIN devices
    /\ devices[resp.id].device.status = OFFLINE
    /\ ~devices[resp.id].device.watering

\* C12: every stored status is one of ok, fault, offline, and set_status on a
\* stored device with any other value raises ValueError (InvalidArgument) and
\* leaves the store as it was.
C12_StatusAlwaysValid ==
    /\ [](\A id \in DOMAIN devices :
            /\ devices[id].device.status \in DeviceStatus
            /\ \A i \in 1..Len(devices[id].history) :
                  devices[id].history[i].status \in DeviceStatus)
    /\ [][(Called("set_status") /\ resp'.id \in DOMAIN devices) =>
            IF resp'.arg \in DeviceStatus
            THEN /\ resp'.err = "none"
                 /\ devices'[resp'.id].device.status = resp'.arg
            ELSE /\ resp'.err = "ValueError"
                 /\ devices' = devices
                 /\ keys' = keys]_vars

\* set_status(id, "bogus") has just been refused on a device whose status is fault.
C12_Witness ==
    /\ resp.op = "set_status"
    /\ resp.arg = "bogus"
    /\ resp.err = "ValueError"
    /\ resp.id \in DOMAIN devices
    /\ devices[resp.id].device.status = FAULT

\* Identifiers handed out by create whose device is no longer stored.
Deleted == (1..nextId) \ DOMAIN devices
ReadingIds(rs) == {rs[i].device_id : i \in 1..Len(rs)}

\* C13: delete of an unknown id raises KeyError (NotFound) and changes nothing;
\* delete of a stored id removes exactly that device with its history; a deleted
\* id never comes back, list() does not hold it, get, history and current on it
\* raise KeyError, every mutating call on it raises KeyError and changes nothing,
\* and every tick batch and catch-up snapshot built afterwards holds readings of
\* stored devices only.
C13_DeleteRemoves ==
    /\ [][Called("delete") =>
            LET id == resp'.id IN
            IF id \in DOMAIN devices
            THEN /\ resp'.err = "none"
                 /\ DOMAIN devices' = DOMAIN devices \ {id}
                 /\ \A k \in DOMAIN devices' : devices'[k] = devices[k]
                 /\ id \notin SeqToSet(keys')
            ELSE /\ resp'.err = "KeyError"
                 /\ devices' = devices
                 /\ keys' = keys]_vars
    /\ [](\A id \in DevIds \ DOMAIN devices :
            /\ GetResult(id).err = "KeyError"
            /\ \A limit \in Limits : HistoryResult(id, limit).err = "KeyError"
            /\ CurrentResult(id).err = "KeyError"
            /\ \A i \in 1..Len(ListResult) : ListResult[i].id # id)
    /\ [][(\E op \in {"get", "history", "current", "update", "set_status",
                      "set_watering", "delete"} : Called(op))
            /\ resp'.id \notin DOMAIN devices
          => resp'.err = "KeyError" /\ devices' = devices /\ keys' = keys]_vars
    /\ [][\A id \in Deleted : id \notin DOMAIN devices']_vars
    /\ [][\A g \in Gens :
            (clock' # clock /\ loops'[g].pc = "send") =>
                /\ ReadingIds(loops'[g].readings) \cap Deleted = {}
                /\ ReadingIds(loops'[g].readings) = DOMAIN devices]_vars
    /\ [][\A w \in WsIds :
            (wsPc[w] = "accept" /\ wsPc'[w] = "catchup") =>
                ReadingIds(Last(chan'[w]).msg.data) \cap Deleted = {}]_vars

\* One of two devices was deleted, a tick ran afterwards and its batch, with a
\* reading of the remaining device only, is being sent to an observer.
C13_Witness ==
    /\ Deleted # {}
    /\ nextId = 2
    /\ \E g \in Gens :
        /\ loops[g].pc = "send"
        /\ Len(loops[g].readings) = 1
        /\ loops[g].readings[1].device_id \notin Deleted
        /\ loops[g].readings[1].timestamp = clock


\* A step that runs a tick sweep.
Ticked == clock' # clock
AutoControlled(d) == d.config.auto_mode /\ d.status = OK

\* C14: a tick on a device with auto_mode set and status ok leaves watering on
\* when the moisture it computed is below min_threshold, leaves the flag as it
\* was when that moisture is at least min_threshold and below max_threshold, and
\* turns it off only when the moisture is at least max_threshold; between two
\* ticks the flag changes only through a successful set_watering.
C14_AutoHysteresis ==
    /\ [][Ticked =>
            \A id \in DOMAIN devices :
                LET d == devices[id].device
                    e == devices'[id].device
                IN  AutoControlled(d) =>
                        /\ e.moisture < d.config.min_threshold => e.watering
                        /\ (e.moisture >= d.config.min_threshold
                            /\ e.moisture < d.config.max_threshold) =>
                                e.watering = d.watering
                        /\ (d.watering /\ ~e.watering) =>
                                e.moisture >= d.config.max_threshold]_vars
    /\ [][~Ticked =>
            \A id \in DOMAIN devices \cap DOMAIN devices' :
                devices'[id].device.watering # devices[id].device.watering =>
                    /\ Called("set_watering")
                    /\ resp'.id = id
                    /\ resp'.err = "none"]_vars

\* An auto-controlled device whose watering came on at a tick that left its
\* moisture below min_threshold is still watering after the next tick, which
\* left the moisture strictly between the thresholds.
C14_Witness ==
    \E id \in DOMAIN devices :
        LET d == devices[id].device
            h == devices[id].history
        IN  /\ AutoControlled(d)
            /\ clock = 2
            /\ Len(h) = 2
            /\ h[1].timestamp = 1
            /\ h[1].watering
            /\ h[1].moisture < d.config.min_threshold
            /\ h[2].timestamp = 2
            /\ d.watering
            /\ d.moisture > d.config.min_threshold
            /\ d.moisture < d.config.max_threshold

\* C15: a tick on an offline device lowers the battery by
\* battery_drain_per_hour / 3600 * TICK_SECONDS * 0.05 (clamped to 0..100),
\* leaves moisture and watering as they were, and appends exactly one reading,
\* of the new state, to the device's history.
C15_OfflineTick ==
    [][Ticked =>
        \A id \in DOMAIN devices :
            LET d == devices[id].device
                e == devices'[id].device
                drain == (d.config.battery_drain_per_hour * TICK_SECONDS * 5) \div 360000
            IN  d.status = OFFLINE =>
                    /\ e.battery = Max2(0, Min2(Pct(100), d.battery - drain))
                    /\ e.moisture = d.moisture
                    /\ e.watering = d.watering
                    /\ e.status = OFFLINE
                    /\ devices'[id].history =
                          DequeAppend(devices[id].history,
                              [timestamp |-> clock', device_id |-> id,
                               moisture |-> Round2(d.moisture),
                               battery |-> Round2(e.battery),
                               watering |-> d.watering, status |-> OFFLINE])]_vars

\* A tick has run on an offline device whose watering flag is on: the battery
\* went down by a twentieth of the hourly drain and the moisture did not move.
C15_Witness ==
    \E id \in DOMAIN devices :
        LET d == devices[id].device
            h == devices[id].history
        IN  /\ d.status = OFFLINE
            /\ d.watering
            /\ clock > 0
            /\ Len(h) = 2
            /\ h[2].timestamp = clock
            /\ h[2].status = OFFLINE
            /\ h[1].moisture = h[2].moisture
            /\ h[1].battery - h[2].battery = 100

\* C18: a tick never changes the watering flag of a device whose status is fault
\* or offline or whose auto_mode is off, and no step other than a successful
\* set_watering on that device does.
C18_AutoOnlyWhenOk ==
    /\ [][Ticked =>
            \A id \in DOMAIN devices :
                ~AutoControlled(devices[id].device) =>
                    devices'[id].device.watering = devices[id].device.watering]_vars
    /\ [][\A id \in DOMAIN devices \cap DOMAIN devices' :
            (~AutoControlled(devices[id].device)
             /\ devices'[id].device.watering # devices[id].device.watering) =>
                /\ Called("set_watering")
                /\ resp'.id = id
                /\ resp'.err = "none"]_vars

\* A tick has left a fault device with auto_mode set below its min_threshold and
\* its watering is still off.
C18_Witness ==
    \E id \in DOMAIN devices :
        LET d == devices[id].device IN
        /\ d.status = FAULT
        /\ d.config.auto_mode
        /\ clock > 0
        /\ d.updated_at = clock
        /\ Last(devices[id].history).timestamp = clock
        /\ d.moisture < d.config.min_threshold
        /\ ~d.watering


\* C16: a stop() called while the loop is inside its sleep returns without the
\* sleep having to run out.
C16_StopInterruptsSleep ==
    (stopPc = "waiting" /\ stopAwait \in Gens /\ loops[stopAwait].pc = "sleep")
        ~> (stopPc = "returned")

\* C17: a tick changes neither the set of devices nor their order, appends to
\* every stored device's history exactly the reading of its new state, and the
\* batch it hands to _broadcast is those readings, one per device, in store
\* order; no other step appends to the history of a stored device, and no store
\* call takes place inside the step of a sweep.
C17_TickOneReadingEach ==
    /\ [][Ticked =>
            /\ DOMAIN devices' = DOMAIN devices
            /\ keys' = keys
            /\ ops' = ops
            /\ \A id \in DOMAIN devices :
                /\ devices'[id].history =
                      DequeAppend(devices[id].history, Last(devices'[id].history))
                /\ Last(devices'[id].history).timestamp = clock'
                /\ Last(devices'[id].history).device_id = id
                /\ Last(devices'[id].history).status = devices[id].device.status
                /\ Last(devices'[id].history).moisture =
                      Round2(devices'[id].device.moisture)
            /\ \A g \in Gens :
                (loops'[g].pc = "send" /\ loops[g].pc # "send") =>
                    /\ Len(loops'[g].readings) = Len(keys)
                    /\ Len(keys) = Cardinality(DOMAIN devices)
                    /\ \A i \in 1..Len(keys) :
                        /\ loops'[g].readings[i].device_id = keys[i]
                        /\ loops'[g].readings[i] = Last(devices'[keys[i]].history)]_vars
    /\ [][~Ticked =>
            \A id \in DOMAIN devices \cap DOMAIN devices' :
                devices'[id].history = devices[id].history]_vars

\* The batch of a tick over two devices, the first of them offline, is being
\* sent to an observer.
C17_Witness ==
    \E g \in Gens :
        /\ loops[g].pc = "send"
        /\ Len(loops[g].readings) = 2
        /\ loops[g].readings[1].device_id = keys[1]
        /\ loops[g].readings[1].status = OFFLINE
        /\ loops[g].readings[2].device_id = keys[2]
        /\ loops[g].readings[2].status = OK
        /\ loops[g].readings[1].timestamp = clock
        /\ loops[g].readings[2].timestamp = clock

\* C19: while a device is stored, the Device a caller holds from the last
\* returning store call still has the field values it had when the call returned.
C19_ReturnedDeviceIsSnapshot ==
    (held.ref \in DOMAIN devices) => HeldValue = held.seen

\* C20: no task holds the store lock in any state between two steps, so a task
\* that reaches an acquisition (the broadcast's removal of dead observers
\* included) never finds the lock held, by itself or by another task; a store
\* call that raises leaves the lock free as well.
C20_LockNeverDeadlocks ==
    /\ [](lock = "free")
    /\ [][(ops' # ops /\ resp'.err # "none") => lock' = "free"]_vars
    /\ [](\A g \in Gens : loops[g].pc \in {"send", "close"} => lock # "loop")

\* A store call has raised while a broadcast, having unregistered a dead observer
\* under the lock, is closing its socket.
C20_Witness ==
    /\ resp.err \in {"KeyError", "ValueError", "RuntimeError"}
    /\ \E g \in Gens :
        /\ loops[g].pc = "close"
        /\ loops[g].uidx = 1
        /\ loops[g].dead[1] \notin ws_clients
    /\ lock = "free"

==========================================================================
